---- MODULE Spec2Model ----
(***************************************************************************)
(* A model of the e-commerce data layer of shop/main/models.py.            *)
(*                                                                         *)
(* The state is the content of the database tables the models declare, the *)
(* clock that timezone.now() reads, and the outcome of the last call.      *)
(* Each table is a function from the primary keys of its stored rows to    *)
(* records of the columns.  The operations are the ORM operations the      *)
(* declarations admit (create, save of a changed column, delete with the   *)
(* declared on_delete rules) and the derived-value methods of the models.  *)
(***************************************************************************)
EXTENDS Integers, Sequences, FiniteSets, TLC

\* ---------------------------------------------------------------- bounds
MaxTime == 2        \* the clock and every timestamp range over 0..MaxTime
MaxUses == 2        \* usage_limit and used_count range over 0..MaxUses
MaxRating == 5      \* stored ratings range over 0..MaxRating
MaxQuantity == 2    \* stored quantities range over 0..MaxQuantity
MaxPrice == 2       \* prices range over 1..MaxPrice
MaxRows == 6        \* the database stores at most MaxRows rows in all

\* Primary keys.  A new row takes any key of its pool that no stored row has.
CustomerIds == {1, 2}
CategoryIds == {1, 2}
ProductIds == {1, 2}
ImageIds == {1}
DiscountIds == {1, 2}
CodeIds == {1}
ReviewIds == {1}
LikeIds == {1, 2}
OrderIds == {1}
OrderItemIds == {1}
CartIds == {1}
CartItemIds == {1, 2}
PaymentIds == {1}

Times == 0..MaxTime
Percentages == {10, 15}
Names == {"a", "b"}
Ratings == 0..MaxRating
Quantities == 0..MaxQuantity
Prices == 1..MaxPrice

\* null in a nullable column (keys start at 1, counts at 0)
NULL == 0 - 1

VARIABLES
    now,                 \* timezone.now()
    customers,           \* Customer rows (a set of keys: no column is read)
    categories,          \* Category: key -> [name, parent]
    products,            \* Product: key -> [category, price]
    images,              \* ProductImage: key -> [product]
    discounts,           \* Discount: key -> [percentage, start_time, end_time]
    discount_products,   \* Discount.products: set of <<discount, product>>
    discount_categories, \* Discount.categories: set of <<discount, category>>
    codes,               \* DiscountCode: key -> [discount, usage_limit, used_count, valid_from, valid_to]
    reviews,             \* Review: key -> [product, user, rating]
    likes,               \* ProductLike: key -> [user, product]
    orders,              \* Order: key -> [customer]
    orderitems,          \* OrderItem: key -> [order, product, quantity, price]
    carts,               \* Cart: key -> [customer]
    cartitems,           \* CartItem: key -> [cart, product, quantity]
    payments,            \* Payment: key -> [order]
    ret                  \* the last call: [op, args, value]

tables == <<customers, categories, products, images, discounts, discount_products,
            discount_categories, codes, reviews, likes, orders, orderitems, carts,
            cartitems, payments>>

vars == <<now, customers, categories, products, images, discounts, discount_products,
          discount_categories, codes, reviews, likes, orders, orderitems, carts,
          cartitems, payments, ret>>

\* ---------------------------------------------------------------- helpers
Empty == <<>>

Keys(t) == DOMAIN t

Without(t, ks) == [k \in (DOMAIN t) \ ks |-> t[k]]

With(t, k, row) == [x \in (DOMAIN t) \cup {k} |-> IF x = k THEN row ELSE t[x]]

Call(op, args, value) == [op |-> op, args |-> args, value |-> value]

Min(a, b) == IF a <= b THEN a ELSE b

RECURSIVE GCD(_, _)
GCD(a, b) == IF b = 0 THEN a ELSE GCD(b, a % b)

RECURSIVE SumOver(_, _)
SumOver(S, f) ==
    IF S = {} THEN 0
    ELSE LET x == CHOOSE y \in S : TRUE IN f[x] + SumOver(S \ {x}, f)

\* every list that holds each element of S once
Orderings(S) ==
    {s \in [1..Cardinality(S) -> S] : \A i, j \in 1..Cardinality(S) : s[i] = s[j] => i = j}

\* ---------------------------------------------------------------- the clock
Tick ==
    /\ now < MaxTime
    /\ now' = now + 1
    /\ ret' = Call("now", <<>>, now + 1)
    /\ UNCHANGED tables

\* ---------------------------------------------------------------- Discount
is_active_exclusive(d, t) == d.start_time < t /\ t < d.end_time

\* Discount.is_active, with t the value timezone.now() returns
is_active(d, t) == d.start_time <= t /\ t <= d.end_time

IsActive(d) ==
    /\ d \in Keys(discounts)
    /\ ret' = Call("Discount.is_active", <<d>>, is_active(discounts[d], now))
    /\ UNCHANGED <<now, tables>>

DiscountRows == [percentage : Percentages, start_time : Times, end_time : Times]

\* ---------------------------------------------------------------- DiscountCode
is_valid_off_by_one(c, t) ==
    IF c.valid_from <= t /\ t <= c.valid_to
    THEN c.usage_limit = NULL \/ c.used_count <= c.usage_limit
    ELSE FALSE

\* DiscountCode.is_valid, with t the value timezone.now() returns
is_valid(c, t) ==
    IF c.valid_from <= t /\ t <= c.valid_to
    THEN IF c.usage_limit = NULL \/ c.used_count < c.usage_limit THEN TRUE ELSE FALSE
    ELSE FALSE

IsValid(c) ==
    /\ c \in Keys(codes)
    /\ ret' = Call("DiscountCode.is_valid", <<c>>, is_valid(codes[c], now))
    /\ UNCHANGED <<now, tables>>

CodeRows(ds) ==
    [discount : ds, usage_limit : {NULL} \cup (0..MaxUses), used_count : 0..MaxUses,
     valid_from : Times, valid_to : Times]

\* ---------------------------------------------------------------- Product
\* the rows of queryset q that filter(start_time__lte=t, end_time__gte=t) keeps
FilterWindow(q, t) ==
    {d \in q : discounts[d].start_time <= t /\ discounts[d].end_time >= t}

\* self.discounts: the discounts whose products relation holds product p
ProductDiscounts(p) == {d \in Keys(discounts) : <<d, p>> \in discount_products}

\* self.category.discounts: the discounts whose categories relation holds c
CategoryDiscounts(c) == {d \in Keys(discounts) : <<d, c>> \in discount_categories}

\* list s with x put behind every element whose percentage is >= that of x
InsertDesc(s, x) ==
    LET ahead == {i \in 1..Len(s) : discounts[s[i]].percentage >= discounts[x].percentage}
        k == IF ahead = {} THEN 0 ELSE CHOOSE i \in ahead : \A j \in ahead : j <= i
    IN  SubSeq(s, 1, k) \o <<x>> \o SubSeq(s, k + 1, Len(s))

\* sorted(s, key=lambda d: d.percentage, reverse=True): stable, so rows of
\* equal percentage keep the order they have in s
RECURSIVE SortedByPercentageDesc(_)
SortedByPercentageDesc(s) ==
    IF s = <<>> THEN <<>>
    ELSE InsertDesc(SortedByPercentageDesc(SubSeq(s, 1, Len(s) - 1)), s[Len(s)])

available_discount_product_only(product_ds, category_ds) ==
    SubSeq(SortedByPercentageDesc(product_ds), 1, Min(1, Len(product_ds)))

\* Product.available_discount, given the two filtered querysets as lists
available_discount(product_ds, category_ds) ==
    LET all == product_ds \o category_ds
    IN  SubSeq(SortedByPercentageDesc(all), 1, Min(1, Len(all)))

\* The querysets carry no order_by, so the database may yield their rows in
\* any order.
AvailableDiscount(p) ==
    /\ p \in Keys(products)
    /\ \E product_ds \in Orderings(FilterWindow(ProductDiscounts(p), now)),
          category_ds \in Orderings(FilterWindow(CategoryDiscounts(products[p].category), now)) :
           ret' = Call("Product.available_discount", <<p>>,
                       available_discount(product_ds, category_ds))
    /\ UNCHANGED <<now, tables>>

\* reviews.aggregate(models.Avg('rating'))['rating__avg'] over the rows rs:
\* the mean as a fraction <<numerator, denominator>> in lowest terms, and
\* None, written <<0, 0>>, for no row
Avg(rs) ==
    IF rs = {} THEN <<0, 0>>
    ELSE LET total == SumOver(rs, [r \in rs |-> reviews[r].rating])
             n == Cardinality(rs)
             g == GCD(n, total)
         IN  <<total \div g, n \div g>>

product_overview_all_reviews(p) ==
    LET rs == Keys(reviews)
        avg_rating == Avg(rs)
    IN  [avg_rating |-> IF avg_rating[2] = 0 \/ avg_rating[1] = 0 THEN <<0, 1>> ELSE avg_rating,
         num_reviews |-> Cardinality(rs)]

\* Product.overview (product_overview); "avg_rating or 0" yields 0 for None
\* and for a mean of zero
product_overview(p) ==
    LET rs == {r \in Keys(reviews) : reviews[r].product = p}
        avg_rating == Avg(rs)
    IN  [avg_rating |-> IF avg_rating[2] = 0 \/ avg_rating[1] = 0 THEN <<0, 1>> ELSE avg_rating,
         num_reviews |-> Cardinality(rs)]

Overview(p) ==
    /\ p \in Keys(products)
    /\ ret' = Call("Product.overview", <<p>>, product_overview(p))
    /\ UNCHANGED <<now, tables>>

\* ---------------------------------------------------------------- rows and keys
\* the rows stored in all
TotalRows ==
    Cardinality(customers) + Cardinality(Keys(categories)) + Cardinality(Keys(products))
    + Cardinality(Keys(images)) + Cardinality(Keys(discounts)) + Cardinality(Keys(codes))
    + Cardinality(Keys(reviews)) + Cardinality(Keys(likes)) + Cardinality(Keys(orders))
    + Cardinality(Keys(orderitems)) + Cardinality(Keys(carts)) + Cardinality(Keys(cartitems))
    + Cardinality(Keys(payments))

\* there is room for a new row with a key of ids
Room(ids, used) == ids \ used # {} /\ TotalRows < MaxRows

\* the key a new row of table t takes
NewKey(ids, t) == CHOOSE k \in ids \ Keys(t) : \A j \in ids \ Keys(t) : k <= j

NewCustomerKey == CHOOSE k \in CustomerIds \ customers : \A j \in CustomerIds \ customers : k <= j

\* PositiveIntegerField: the column's CHECK constraint admits 0 and above
PositiveIntegerField(v) == v >= 0

\* ---------------------------------------------------------------- on_delete
\* Each operator gives the rows that the deletion of the given parent rows
\* takes along (on_delete=CASCADE).
CascadeProducts(cats) == {p \in Keys(products) : products[p].category \in cats}

CascadeImages(prods) == {i \in Keys(images) : images[i].product \in prods}

CascadeReviews_user_only(prods, custs) ==
    {r \in Keys(reviews) : reviews[r].user \in custs}

CascadeReviews(prods, custs) ==
    {r \in Keys(reviews) : reviews[r].product \in prods \/ reviews[r].user \in custs}

CascadeLikes(prods, custs) ==
    {l \in Keys(likes) : likes[l].product \in prods \/ likes[l].user \in custs}

CascadeOrders(custs) == {o \in Keys(orders) : orders[o].customer \in custs}

CascadeOrderItems(ords, prods) ==
    {i \in Keys(orderitems) : orderitems[i].order \in ords \/ orderitems[i].product \in prods}

CascadeCarts(custs) == {k \in Keys(carts) : carts[k].customer \in custs}

CascadeCartItems(crts, prods) ==
    {i \in Keys(cartitems) : cartitems[i].cart \in crts \/ cartitems[i].product \in prods}

CascadePayments(ords) == {y \in Keys(payments) : payments[y].order \in ords}

\* Category.parent, on_delete=SET_NULL: the rows of t whose parent is deleted
\* get a null parent
SetNullParent(t, cats) ==
    [k \in Keys(t) |-> IF t[k].parent \in cats THEN [t[k] EXCEPT !.parent = NULL] ELSE t[k]]

NoRows ==
    [customers |-> {}, categories |-> {}, products |-> {}, images |-> {}, reviews |-> {},
     likes |-> {}, orders |-> {}, orderitems |-> {}, carts |-> {}, cartitems |-> {},
     payments |-> {}]

\* the rows a delete() of the rows in seed removes, table by table
Collect(seed) ==
    LET prods == seed.products \cup CascadeProducts(seed.categories)
        ords == seed.orders \cup CascadeOrders(seed.customers)
        crts == seed.carts \cup CascadeCarts(seed.customers)
    IN  [customers |-> seed.customers,
         categories |-> seed.categories,
         products |-> prods,
         images |-> seed.images \cup CascadeImages(prods),
         reviews |-> seed.reviews \cup CascadeReviews(prods, seed.customers),
         likes |-> seed.likes \cup CascadeLikes(prods, seed.customers),
         orders |-> ords,
         orderitems |-> seed.orderitems \cup CascadeOrderItems(ords, prods),
         carts |-> crts,
         cartitems |-> seed.cartitems \cup CascadeCartItems(crts, prods),
         payments |-> seed.payments \cup CascadePayments(ords)]

\* the number of rows delete() reports as deleted
Deleted(del) ==
    Cardinality(del.customers) + Cardinality(del.categories) + Cardinality(del.products)
    + Cardinality(del.images) + Cardinality(del.reviews) + Cardinality(del.likes)
    + Cardinality(del.orders) + Cardinality(del.orderitems) + Cardinality(del.carts)
    + Cardinality(del.cartitems) + Cardinality(del.payments)

\* Model.delete(): the collected rows go, the nullable references to them
\* are nulled, the many-to-many rows of the deleted products and categories go
Delete(op, key, seed) ==
    LET del == Collect(seed) IN
    /\ customers' = customers \ del.customers
    /\ categories' = SetNullParent(Without(categories, del.categories), del.categories)
    /\ products' = Without(products, del.products)
    /\ images' = Without(images, del.images)
    /\ reviews' = Without(reviews, del.reviews)
    /\ likes' = Without(likes, del.likes)
    /\ orders' = Without(orders, del.orders)
    /\ orderitems' = Without(orderitems, del.orderitems)
    /\ carts' = Without(carts, del.carts)
    /\ cartitems' = Without(cartitems, del.cartitems)
    /\ payments' = Without(payments, del.payments)
    /\ discount_products' = {l \in discount_products : l[2] \notin del.products}
    /\ discount_categories' = {l \in discount_categories : l[2] \notin del.categories}
    /\ ret' = Call(op, <<key>>, Deleted(del))
    /\ UNCHANGED <<now, discounts, codes>>

\* a rejected INSERT or UPDATE: the database raises IntegrityError and keeps
\* every table as it is
Reject(op, args) ==
    /\ ret' = Call(op, args, "IntegrityError")
    /\ UNCHANGED <<now, tables>>

\* ---------------------------------------------------------------- Customer
CreateCustomer ==
    /\ Room(CustomerIds, customers)
    /\ customers' = customers \cup {NewCustomerKey}
    /\ ret' = Call("Customer.create", <<>>, "created")
    /\ UNCHANGED <<now, categories, products, images, discounts, discount_products,
                   discount_categories, codes, reviews, likes, orders, orderitems, carts,
                   cartitems, payments>>

DeleteCustomer(u) ==
    /\ u \in customers
    /\ Delete("Customer.delete", u, [NoRows EXCEPT !.customers = {u}])

\* ---------------------------------------------------------------- Category
\* parent is null or the key of a stored category (the foreign key constraint)
CreateCategory(name, parent) ==
    IF parent = NULL \/ parent \in Keys(categories)
    THEN /\ Room(CategoryIds, Keys(categories))
         /\ categories' = With(categories, NewKey(CategoryIds, categories),
                               [name |-> name, parent |-> parent])
         /\ ret' = Call("Category.create", <<name, parent>>, "created")
         /\ UNCHANGED <<now, customers, products, images, discounts, discount_products,
                        discount_categories, codes, reviews, likes, orders, orderitems,
                        carts, cartitems, payments>>
    ELSE Reject("Category.create", <<name, parent>>)

\* category.parent = parent; category.save()
SetCategoryParent(c, parent) ==
    /\ c \in Keys(categories)
    /\ IF parent = NULL \/ parent \in Keys(categories)
       THEN /\ categories' = [categories EXCEPT ![c].parent = parent]
            /\ ret' = Call("Category.save", <<c, parent>>, "saved")
            /\ UNCHANGED <<now, customers, products, images, discounts, discount_products,
                           discount_categories, codes, reviews, likes, orders, orderitems,
                           carts, cartitems, payments>>
       ELSE Reject("Category.save", <<c, parent>>)

DeleteCategory(c) ==
    /\ c \in Keys(categories)
    /\ Delete("Category.delete", c, [NoRows EXCEPT !.categories = {c}])

\* Category.__str__ as the list of names from the topmost ancestor down to c.
\* Each parent costs one nested call; a chain that does not end within depth
\* calls never ends (no chain without a repeated category is longer than the
\* table), and Python raises RecursionError.
RECURSIVE category_str(_, _)
category_str(c, depth) ==
    IF depth = 0 THEN <<"RecursionError">>
    ELSE IF categories[c].parent = NULL THEN <<categories[c].name>>
    ELSE LET above == category_str(categories[c].parent, depth - 1)
         IN  IF above = <<"RecursionError">> THEN above
             ELSE Append(above, categories[c].name)

\* str(category)
StrCategory(c) ==
    /\ c \in Keys(categories)
    /\ ret' = Call("Category.__str__", <<c>>,
                   category_str(c, Cardinality(Keys(categories))))
    /\ UNCHANGED <<now, tables>>

\* ---------------------------------------------------------------- Product rows
CreateProduct(category, price) ==
    IF category \in Keys(categories)
    THEN /\ Room(ProductIds, Keys(products))
         /\ products' = With(products, NewKey(ProductIds, products),
                             [category |-> category, price |-> price])
         /\ ret' = Call("Product.create", <<category, price>>, "created")
         /\ UNCHANGED <<now, customers, categories, images, discounts, discount_products,
                        discount_categories, codes, reviews, likes, orders, orderitems,
                        carts, cartitems, payments>>
    ELSE Reject("Product.create", <<category, price>>)

SetProductPrice_live(p, price) ==
    /\ p \in Keys(products)
    /\ products' = [products EXCEPT ![p].price = price]
    /\ orderitems' = [i \in Keys(orderitems) |->
                         IF orderitems[i].product = p
                         THEN [orderitems[i] EXCEPT !.price = price]
                         ELSE orderitems[i]]
    /\ ret' = Call("Product.save", <<p, price>>, "saved")
    /\ UNCHANGED <<now, customers, categories, images, discounts, discount_products,
                   discount_categories, codes, reviews, likes, orders, carts,
                   cartitems, payments>>

\* product.price = price; product.save()
SetProductPrice(p, price) ==
    /\ p \in Keys(products)
    /\ products' = [products EXCEPT ![p].price = price]
    /\ ret' = Call("Product.save", <<p, price>>, "saved")
    /\ UNCHANGED <<now, customers, categories, images, discounts, discount_products,
                   discount_categories, codes, reviews, likes, orders, orderitems, carts,
                   cartitems, payments>>

DeleteProduct(p) ==
    /\ p \in Keys(products)
    /\ Delete("Product.delete", p, [NoRows EXCEPT !.products = {p}])

\* ---------------------------------------------------------------- ProductImage
CreateProductImage(product) ==
    IF product \in Keys(products)
    THEN /\ Room(ImageIds, Keys(images))
         /\ images' = With(images, NewKey(ImageIds, images), [product |-> product])
         /\ ret' = Call("ProductImage.create", <<product>>, "created")
         /\ UNCHANGED <<now, customers, categories, products, discounts, discount_products,
                        discount_categories, codes, reviews, likes, orders, orderitems,
                        carts, cartitems, payments>>
    ELSE Reject("ProductImage.create", <<product>>)

DeleteProductImage(i) ==
    /\ i \in Keys(images)
    /\ Delete("ProductImage.delete", i, [NoRows EXCEPT !.images = {i}])

\* ---------------------------------------------------------------- Review
\* save() does not run the choices validation of rating; the column is a
\* PositiveSmallIntegerField
CreateReview(product, user, rating) ==
    IF product \in Keys(products) /\ user \in customers /\ PositiveIntegerField(rating)
    THEN /\ Room(ReviewIds, Keys(reviews))
         /\ reviews' = With(reviews, NewKey(ReviewIds, reviews),
                            [product |-> product, user |-> user, rating |-> rating])
         /\ ret' = Call("Review.create", <<product, user, rating>>, "created")
         /\ UNCHANGED <<now, customers, categories, products, images, discounts,
                        discount_products, discount_categories, codes, likes, orders,
                        orderitems, carts, cartitems, payments>>
    ELSE Reject("Review.create", <<product, user, rating>>)

DeleteReview(r) ==
    /\ r \in Keys(reviews)
    /\ Delete("Review.delete", r, [NoRows EXCEPT !.reviews = {r}])

\* ---------------------------------------------------------------- ProductLike
ProductLike_unchecked(user, product) == TRUE

\* ProductLike.Meta.unique_together = ('user', 'product'): no stored like has
\* this pair
ProductLike_unique_together(user, product) ==
    ~ \E l \in Keys(likes) : likes[l].user = user /\ likes[l].product = product

CreateProductLike(user, product) ==
    IF /\ user \in customers
       /\ product \in Keys(products)
       /\ ProductLike_unique_together(user, product)
    THEN /\ Room(LikeIds, Keys(likes))
         /\ likes' = With(likes, NewKey(LikeIds, likes), [user |-> user, product |-> product])
         /\ ret' = Call("ProductLike.create", <<user, product>>, "created")
         /\ UNCHANGED <<now, customers, categories, products, images, discounts,
                        discount_products, discount_categories, codes, reviews, orders,
                        orderitems, carts, cartitems, payments>>
    ELSE Reject("ProductLike.create", <<user, product>>)

DeleteProductLike(l) ==
    /\ l \in Keys(likes)
    /\ Delete("ProductLike.delete", l, [NoRows EXCEPT !.likes = {l}])

\* ---------------------------------------------------------------- Order
CreateOrder(customer) ==
    IF customer \in customers
    THEN /\ Room(OrderIds, Keys(orders))
         /\ orders' = With(orders, NewKey(OrderIds, orders), [customer |-> customer])
         /\ ret' = Call("Order.create", <<customer>>, "created")
         /\ UNCHANGED <<now, customers, categories, products, images, discounts,
                        discount_products, discount_categories, codes, reviews, likes,
                        orderitems, carts, cartitems, payments>>
    ELSE Reject("Order.create", <<customer>>)

DeleteOrder(o) ==
    /\ o \in Keys(orders)
    /\ Delete("Order.delete", o, [NoRows EXCEPT !.orders = {o}])

\* ---------------------------------------------------------------- OrderItem
CreateOrderItem(order, product, quantity, price) ==
    IF order \in Keys(orders) /\ product \in Keys(products) /\ PositiveIntegerField(quantity)
    THEN /\ Room(OrderItemIds, Keys(orderitems))
         /\ orderitems' = With(orderitems, NewKey(OrderItemIds, orderitems),
                               [order |-> order, product |-> product,
                                quantity |-> quantity, price |-> price])
         /\ ret' = Call("OrderItem.create", <<order, product, quantity, price>>, "created")
         /\ UNCHANGED <<now, customers, categories, products, images, discounts,
                        discount_products, discount_categories, codes, reviews, likes,
                        orders, carts, cartitems, payments>>
    ELSE Reject("OrderItem.create", <<order, product, quantity, price>>)

\* item.quantity = quantity; item.save()
SetOrderItemQuantity(i, quantity) ==
    /\ i \in Keys(orderitems)
    /\ IF PositiveIntegerField(quantity)
       THEN /\ orderitems' = [orderitems EXCEPT ![i].quantity = quantity]
            /\ ret' = Call("OrderItem.save", <<i, quantity>>, "saved")
            /\ UNCHANGED <<now, customers, categories, products, images, discounts,
                           discount_products, discount_categories, codes, reviews, likes,
                           orders, carts, cartitems, payments>>
       ELSE Reject("OrderItem.save", <<i, quantity>>)

DeleteOrderItem(i) ==
    /\ i \in Keys(orderitems)
    /\ Delete("OrderItem.delete", i, [NoRows EXCEPT !.orderitems = {i}])

\* ---------------------------------------------------------------- Cart
\* Cart.customer is a OneToOneField: no stored cart has this customer
Cart_one_to_one(customer) == ~ \E k \in Keys(carts) : carts[k].customer = customer

CreateCart(customer) ==
    IF customer \in customers /\ Cart_one_to_one(customer)
    THEN /\ Room(CartIds, Keys(carts))
         /\ carts' = With(carts, NewKey(CartIds, carts), [customer |-> customer])
         /\ ret' = Call("Cart.create", <<customer>>, "created")
         /\ UNCHANGED <<now, customers, categories, products, images, discounts,
                        discount_products, discount_categories, codes, reviews, likes,
                        orders, orderitems, cartitems, payments>>
    ELSE Reject("Cart.create", <<customer>>)

DeleteCart(k) ==
    /\ k \in Keys(carts)
    /\ Delete("Cart.delete", k, [NoRows EXCEPT !.carts = {k}])

\* ---------------------------------------------------------------- CartItem
CartItem_unchecked(cart, product) == TRUE

\* CartItem.Meta.unique_together = ('cart', 'product'): no stored item has
\* this pair
CartItem_unique_together(cart, product) ==
    ~ \E i \in Keys(cartitems) : cartitems[i].cart = cart /\ cartitems[i].product = product

CreateCartItem(cart, product, quantity) ==
    IF /\ cart \in Keys(carts)
       /\ product \in Keys(products)
       /\ PositiveIntegerField(quantity)
       /\ CartItem_unique_together(cart, product)
    THEN /\ Room(CartItemIds, Keys(cartitems))
         /\ cartitems' = With(cartitems, NewKey(CartItemIds, cartitems),
                              [cart |-> cart, product |-> product, quantity |-> quantity])
         /\ ret' = Call("CartItem.create", <<cart, product, quantity>>, "created")
         /\ UNCHANGED <<now, customers, categories, products, images, discounts,
                        discount_products, discount_categories, codes, reviews, likes,
                        orders, orderitems, carts, payments>>
    ELSE Reject("CartItem.create", <<cart, product, quantity>>)

\* item.quantity = quantity; item.save()
SetCartItemQuantity(i, quantity) ==
    /\ i \in Keys(cartitems)
    /\ IF PositiveIntegerField(quantity)
       THEN /\ cartitems' = [cartitems EXCEPT ![i].quantity = quantity]
            /\ ret' = Call("CartItem.save", <<i, quantity>>, "saved")
            /\ UNCHANGED <<now, customers, categories, products, images, discounts,
                           discount_products, discount_categories, codes, reviews, likes,
                           orders, orderitems, carts, payments>>
       ELSE Reject("CartItem.save", <<i, quantity>>)

DeleteCartItem(i) ==
    /\ i \in Keys(cartitems)
    /\ Delete("CartItem.delete", i, [NoRows EXCEPT !.cartitems = {i}])

\* ---------------------------------------------------------------- Payment
\* Payment.order is a OneToOneField: no stored payment has this order
Payment_one_to_one(order) == ~ \E y \in Keys(payments) : payments[y].order = order

CreatePayment(order) ==
    IF order \in Keys(orders) /\ Payment_one_to_one(order)
    THEN /\ Room(PaymentIds, Keys(payments))
         /\ payments' = With(payments, NewKey(PaymentIds, payments), [order |-> order])
         /\ ret' = Call("Payment.create", <<order>>, "created")
         /\ UNCHANGED <<now, customers, categories, products, images, discounts,
                        discount_products, discount_categories, codes, reviews, likes,
                        orders, orderitems, carts, cartitems>>
    ELSE Reject("Payment.create", <<order>>)

DeletePayment(y) ==
    /\ y \in Keys(payments)
    /\ Delete("Payment.delete", y, [NoRows EXCEPT !.payments = {y}])

\* ---------------------------------------------------------------- specifications
NoCall == Call("none", <<>>, 0)

Init ==
    /\ now = 0
    /\ customers = {}
    /\ categories = Empty
    /\ products = Empty
    /\ images = Empty
    /\ discounts = Empty
    /\ discount_products = {}
    /\ discount_categories = {}
    /\ codes = Empty
    /\ reviews = Empty
    /\ likes = Empty
    /\ orders = Empty
    /\ orderitems = Empty
    /\ carts = Empty
    /\ cartitems = Empty
    /\ payments = Empty
    /\ ret = NoCall

\* Discount.is_active over every stored discount and every clock value
InitActive ==
    /\ now = 0
    /\ customers = {}
    /\ categories = Empty
    /\ products = Empty
    /\ images = Empty
    /\ \E ks \in SUBSET DiscountIds : discounts \in [ks -> DiscountRows]
    /\ discount_products = {}
    /\ discount_categories = {}
    /\ codes = Empty
    /\ reviews = Empty
    /\ likes = Empty
    /\ orders = Empty
    /\ orderitems = Empty
    /\ carts = Empty
    /\ cartitems = Empty
    /\ payments = Empty
    /\ ret = NoCall

NextActive ==
    \/ Tick
    \/ \E d \in DiscountIds : IsActive(d)

SpecActive == InitActive /\ [][NextActive]_vars

\* DiscountCode.is_valid over every stored code and every clock value
InitCode ==
    /\ now = 0
    /\ customers = {}
    /\ categories = Empty
    /\ products = Empty
    /\ images = Empty
    /\ discounts = [d \in {1} |-> [percentage |-> 10, start_time |-> 0, end_time |-> 0]]
    /\ discount_products = {}
    /\ discount_categories = {}
    /\ \E ks \in SUBSET CodeIds : codes \in [ks -> CodeRows(Keys(discounts))]
    /\ reviews = Empty
    /\ likes = Empty
    /\ orders = Empty
    /\ orderitems = Empty
    /\ carts = Empty
    /\ cartitems = Empty
    /\ payments = Empty
    /\ ret = NoCall

NextCode ==
    \/ Tick
    \/ \E c \in CodeIds : IsValid(c)

SpecCode == InitCode /\ [][NextCode]_vars

\* Product.available_discount over every set of discounts attached to a
\* product and to the categories
InitBest ==
    /\ now = 0
    /\ customers = {}
    /\ categories = [c \in CategoryIds |-> [name |-> "a", parent |-> NULL]]
    /\ products = [p \in {1} |-> [category |-> 1, price |-> 1]]
    /\ images = Empty
    /\ \E ks \in SUBSET DiscountIds :
           /\ discounts \in [ks -> DiscountRows]
           /\ discount_products \in SUBSET (ks \X Keys(products))
           /\ discount_categories \in SUBSET (ks \X Keys(categories))
    /\ codes = Empty
    /\ reviews = Empty
    /\ likes = Empty
    /\ orders = Empty
    /\ orderitems = Empty
    /\ carts = Empty
    /\ cartitems = Empty
    /\ payments = Empty
    /\ ret = NoCall

NextBest ==
    \/ Tick
    \/ \E p \in ProductIds : AvailableDiscount(p)

SpecBest == InitBest /\ [][NextBest]_vars

\* Product.overview over every set of reviews of two products
OverviewReviewIds == {1, 2, 3, 4}

InitOverview ==
    /\ now = 0
    /\ customers = {1}
    /\ categories = [c \in {1} |-> [name |-> "a", parent |-> NULL]]
    /\ products = [p \in ProductIds |-> [category |-> 1, price |-> 1]]
    /\ images = Empty
    /\ discounts = Empty
    /\ discount_products = {}
    /\ discount_categories = {}
    /\ codes = Empty
    /\ \E ks \in SUBSET OverviewReviewIds :
           reviews \in [ks -> [product : Keys(products), user : customers, rating : Ratings]]
    /\ likes = Empty
    /\ orders = Empty
    /\ orderitems = Empty
    /\ carts = Empty
    /\ cartitems = Empty
    /\ payments = Empty
    /\ ret = NoCall

NextOverview == \E p \in ProductIds : Overview(p)

SpecOverview == InitOverview /\ [][NextOverview]_vars

\* ProductLike rows and the rows they refer to
NextLike ==
    \/ CreateCustomer
    \/ \E u \in CustomerIds : DeleteCustomer(u)
    \/ CreateCategory("a", NULL)
    \/ \E c \in CategoryIds : DeleteCategory(c)
    \/ \E c \in CategoryIds : CreateProduct(c, 1)
    \/ \E p \in ProductIds : DeleteProduct(p)
    \/ \E u \in CustomerIds, p \in ProductIds : CreateProductLike(u, p)
    \/ \E l \in LikeIds : DeleteProductLike(l)

SpecLike == Init /\ [][NextLike]_vars

\* CartItem rows and the rows they refer to
NextCart ==
    \/ CreateCustomer
    \/ \E u \in CustomerIds : DeleteCustomer(u)
    \/ CreateCategory("a", NULL)
    \/ \E c \in CategoryIds : DeleteCategory(c)
    \/ \E c \in CategoryIds : CreateProduct(c, 1)
    \/ \E p \in ProductIds : DeleteProduct(p)
    \/ \E u \in CustomerIds : CreateCart(u)
    \/ \E k \in CartIds : DeleteCart(k)
    \/ \E k \in CartIds, p \in ProductIds, q \in Quantities : CreateCartItem(k, p, q)
    \/ \E i \in CartItemIds : DeleteCartItem(i)

SpecCart == Init /\ [][NextCart]_vars

\* the Category tree and the products of the categories
NextCategory ==
    \/ \E n \in Names, parent \in {NULL} \cup CategoryIds : CreateCategory(n, parent)
    \/ \E c \in CategoryIds, parent \in {NULL} \cup CategoryIds : SetCategoryParent(c, parent)
    \/ \E c \in CategoryIds : DeleteCategory(c)
    \/ \E c \in CategoryIds : StrCategory(c)
    \/ \E c \in CategoryIds : CreateProduct(c, 1)
    \/ \E p \in ProductIds : DeleteProduct(p)

SpecCategory == Init /\ [][NextCategory]_vars

\* orders and their items, with the prices of the products
NextOrder ==
    \/ CreateCustomer
    \/ \E u \in CustomerIds : DeleteCustomer(u)
    \/ CreateCategory("a", NULL)
    \/ \E c \in CategoryIds, price \in Prices : CreateProduct(c, price)
    \/ \E p \in ProductIds, price \in Prices : SetProductPrice(p, price)
    \/ \E p \in ProductIds : DeleteProduct(p)
    \/ \E u \in CustomerIds : CreateOrder(u)
    \/ \E o \in OrderIds : DeleteOrder(o)
    \/ \E o \in OrderIds, p \in ProductIds, price \in Prices : CreateOrderItem(o, p, 1, price)
    \/ \E i \in OrderItemIds : DeleteOrderItem(i)

SpecOrder == Init /\ [][NextOrder]_vars

\* the quantities of order items and of cart items
QuantityInputs == {NULL} \cup Quantities

NextQuantity ==
    \/ CreateCustomer
    \/ CreateCategory("a", NULL)
    \/ \E c \in CategoryIds : CreateProduct(c, 1)
    \/ \E p \in ProductIds : DeleteProduct(p)
    \/ \E u \in CustomerIds : CreateOrder(u)
    \/ \E o \in OrderIds, p \in ProductIds, q \in QuantityInputs : CreateOrderItem(o, p, q, 1)
    \/ \E i \in OrderItemIds, q \in QuantityInputs : SetOrderItemQuantity(i, q)
    \/ \E i \in OrderItemIds : DeleteOrderItem(i)
    \/ \E u \in CustomerIds : CreateCart(u)
    \/ \E k \in CartIds, p \in ProductIds, q \in QuantityInputs : CreateCartItem(k, p, q)
    \/ \E i \in CartItemIds, q \in QuantityInputs : SetCartItemQuantity(i, q)
    \/ \E i \in CartItemIds : DeleteCartItem(i)

SpecQuantity == Init /\ [][NextQuantity]_vars

\* every table with a required reference, and every delete
NextCascade ==
    \/ CreateCustomer
    \/ \E u \in CustomerIds : DeleteCustomer(u)
    \/ CreateCategory("a", NULL)
    \/ \E c \in CategoryIds : DeleteCategory(c)
    \/ \E c \in CategoryIds : CreateProduct(c, 1)
    \/ \E p \in ProductIds : DeleteProduct(p)
    \/ \E p \in ProductIds : CreateProductImage(p)
    \/ \E i \in ImageIds : DeleteProductImage(i)
    \/ \E p \in ProductIds, u \in CustomerIds : CreateReview(p, u, 1)
    \/ \E r \in ReviewIds : DeleteReview(r)
    \/ \E u \in CustomerIds, p \in ProductIds : CreateProductLike(u, p)
    \/ \E l \in LikeIds : DeleteProductLike(l)
    \/ \E u \in CustomerIds : CreateOrder(u)
    \/ \E o \in OrderIds : DeleteOrder(o)
    \/ \E o \in OrderIds, p \in ProductIds : CreateOrderItem(o, p, 1, 1)
    \/ \E i \in OrderItemIds : DeleteOrderItem(i)
    \/ \E u \in CustomerIds : CreateCart(u)
    \/ \E k \in CartIds : DeleteCart(k)
    \/ \E k \in CartIds, p \in ProductIds : CreateCartItem(k, p, 1)
    \/ \E i \in CartItemIds : DeleteCartItem(i)
    \/ \E o \in OrderIds : CreatePayment(o)
    \/ \E y \in PaymentIds : DeletePayment(y)

SpecCascade == Init /\ [][NextCascade]_vars

\* ---------------------------------------------------------------- claims

\* C6: whenever Discount.is_active() has just returned for a discount, it
\* returned TRUE if the clock is at or after start_time and at or before
\* end_time (so also at either end), and FALSE if the clock is before
\* start_time or after end_time.
C6_IsActiveInclusive ==
    ret.op = "Discount.is_active" =>
        LET d == discounts[ret.args[1]] IN
        /\ (now < d.start_time \/ now > d.end_time) => ret.value = FALSE
        /\ (now >= d.start_time /\ now <= d.end_time) => ret.value = TRUE
        /\ ((now = d.start_time \/ now = d.end_time) /\ d.start_time <= d.end_time)
               => ret.value = TRUE

\* is_active() has returned TRUE with the clock exactly on an end of the window
C6_Witness ==
    /\ ret.op = "Discount.is_active"
    /\ ret.value = TRUE
    /\ now = discounts[ret.args[1]].end_time
    /\ now > discounts[ret.args[1]].start_time

\* C1: whenever DiscountCode.is_valid() has just returned for a code, the
\* result is TRUE exactly when valid_from <= now <= valid_to and the code has
\* no usage limit or has been used fewer times than the limit; a code used
\* exactly usage_limit times is invalid, one used usage_limit - 1 times is
\* valid inside the window.
C1_IsValidIff ==
    ret.op = "DiscountCode.is_valid" =>
        LET c == codes[ret.args[1]]
            inWindow == now \in c.valid_from..c.valid_to
            unlimited == c.usage_limit = NULL
        IN  /\ ret.value = TRUE <=> (inWindow /\ (unlimited \/ c.usage_limit - c.used_count >= 1))
            /\ (~unlimited /\ c.used_count = c.usage_limit) => ret.value = FALSE
            /\ (~unlimited /\ c.used_count = c.usage_limit - 1 /\ inWindow) => ret.value = TRUE

\* is_valid() has returned TRUE for a limited code one use short of its limit,
\* with the clock on the last instant of the window
C1_Witness ==
    /\ ret.op = "DiscountCode.is_valid"
    /\ ret.value = TRUE
    /\ codes[ret.args[1]].usage_limit # NULL
    /\ codes[ret.args[1]].used_count = codes[ret.args[1]].usage_limit - 1
    /\ now = codes[ret.args[1]].valid_to

\* C2: whenever Product.available_discount() has just returned for a product,
\* take the discounts attached to the product or to the product's category
\* whose window holds the clock: if there is none the result is empty, else
\* the result is one of them, and no other of them has a higher percentage.
C2_BestActiveDiscount ==
    ret.op = "Product.available_discount" =>
        LET p == ret.args[1]
            attached == {d \in Keys(discounts) :
                            \/ <<d, p>> \in discount_products
                            \/ <<d, products[p].category>> \in discount_categories}
            active == {d \in attached : now \in discounts[d].start_time..discounts[d].end_time}
        IN  IF active = {} THEN ret.value = <<>>
            ELSE /\ Len(ret.value) = 1
                 /\ ret.value[1] \in active
                 /\ \A d \in active :
                        discounts[ret.value[1]].percentage >= discounts[d].percentage

\* a 10% discount on the product and a 15% discount on its category are both
\* active, and the 15% one has been returned
C2_Witness ==
    /\ ret.op = "Product.available_discount"
    /\ \E d10, d15 \in Keys(discounts) :
           /\ discounts[d10].percentage = 10
           /\ discounts[d15].percentage = 15
           /\ discount_products = {<<d10, ret.args[1]>>}
           /\ discount_categories = {<<d15, products[ret.args[1]].category>>}
           /\ is_active(discounts[d10], now)
           /\ is_active(discounts[d15], now)
           /\ ret.value = <<d15>>

\* C7: whenever Product.overview has just returned for a product, num_reviews
\* is the number of stored reviews of that product, and avg_rating is 0 when
\* there is none and otherwise the sum of their ratings divided by their
\* number; reviews of other products do not count.
C7_Overview ==
    ret.op = "Product.overview" =>
        LET own == {r \in Keys(reviews) : reviews[r].product = ret.args[1]}
            n == Cardinality(own)
            total == SumOver(own, [r \in own |-> reviews[r].rating])
            avg == ret.value.avg_rating
        IN  /\ ret.value.num_reviews = n
            /\ n = 0 => avg = <<0, 1>>
            /\ n > 0 => avg[2] > 0 /\ avg[1] * n = total * avg[2]

\* a product with the ratings 5, 3 and 4, next to a review of another
\* product, has the overview avg 4, count 3
C7_Witness ==
    /\ ret.op = "Product.overview"
    /\ ret.value = [avg_rating |-> <<4, 1>>, num_reviews |-> 3]
    /\ \E a, b, c, o \in Keys(reviews) :
           /\ reviews[a] = [product |-> ret.args[1], user |-> 1, rating |-> 5]
           /\ reviews[b] = [product |-> ret.args[1], user |-> 1, rating |-> 3]
           /\ reviews[c] = [product |-> ret.args[1], user |-> 1, rating |-> 4]
           /\ reviews[o].product # ret.args[1]

\* C3: no two stored ProductLike rows have the same (user, product) pair, and
\* a ProductLike creation for a pair that a stored row already has is
\* rejected and leaves the stored likes as they were.
C3_LikePairOnce ==
    /\ [](\A a, b \in Keys(likes) : likes[a] = likes[b] => a = b)
    /\ [][(/\ ret'.op = "ProductLike.create"
           /\ \E l \in Keys(likes) :
                  likes[l] = [user |-> ret'.args[1], product |-> ret'.args[2]])
          => (ret'.value = "IntegrityError" /\ likes' = likes)]_vars

\* a creation has been rejected for a pair that a stored like holds
C3_Witness ==
    /\ ret.op = "ProductLike.create"
    /\ ret.value = "IntegrityError"
    /\ \E l \in Keys(likes) : likes[l] = [user |-> ret.args[1], product |-> ret.args[2]]

\* C4: no two stored CartItem rows have the same (cart, product) pair, and a
\* CartItem creation for a pair that a stored row already has is rejected and
\* leaves the stored cart items as they were.
C4_CartPairOnce ==
    /\ [](\A a, b \in Keys(cartitems) :
             (cartitems[a].cart = cartitems[b].cart
              /\ cartitems[a].product = cartitems[b].product) => a = b)
    /\ [][(/\ ret'.op = "CartItem.create"
           /\ \E i \in Keys(cartitems) :
                  cartitems[i].cart = ret'.args[1] /\ cartitems[i].product = ret'.args[2])
          => (ret'.value = "IntegrityError" /\ cartitems' = cartitems)]_vars

\* a creation with an admissible quantity has been rejected for a pair that
\* a stored cart item holds
C4_Witness ==
    /\ ret.op = "CartItem.create"
    /\ ret.value = "IntegrityError"
    /\ PositiveIntegerField(ret.args[3])
    /\ \E i \in Keys(cartitems) :
           cartitems[i].cart = ret.args[1] /\ cartitems[i].product = ret.args[2]

\* C5: a step that deletes a category keeps every category that had it as
\* parent, with a null parent and its other columns as they were.
C5_ChildrenKept ==
    [][(ret'.op = "Category.delete" /\ ret'.args[1] \in Keys(categories))
       => \A k \in Keys(categories) :
              categories[k].parent = ret'.args[1]
              => (/\ k \in Keys(categories')
                  /\ categories'[k] = [categories[k] EXCEPT !.parent = NULL])]_vars

\* the same for every child but the deleted category itself (a category that
\* is its own parent is its own child)
C5_OtherChildrenKept ==
    [][(ret'.op = "Category.delete" /\ ret'.args[1] \in Keys(categories))
       => \A k \in Keys(categories) \ {ret'.args[1]} :
              categories[k].parent = ret'.args[1]
              => (/\ k \in Keys(categories')
                  /\ categories'[k] = [categories[k] EXCEPT !.parent = NULL])]_vars

\* C8: every required reference of a stored row names a stored row; and
\* right after the deletion of a product or of a customer no stored row
\* refers to its key.
C8_ReferencesIntact ==
    /\ \A p \in Keys(products) : products[p].category \in Keys(categories)
    /\ \A i \in Keys(images) : images[i].product \in Keys(products)
    /\ \A r \in Keys(reviews) :
           reviews[r].product \in Keys(products) /\ reviews[r].user \in customers
    /\ \A l \in Keys(likes) : likes[l].product \in Keys(products) /\ likes[l].user \in customers
    /\ \A o \in Keys(orders) : orders[o].customer \in customers
    /\ \A i \in Keys(orderitems) :
           orderitems[i].order \in Keys(orders) /\ orderitems[i].product \in Keys(products)
    /\ \A k \in Keys(carts) : carts[k].customer \in customers
    /\ \A i \in Keys(cartitems) :
           cartitems[i].cart \in Keys(carts) /\ cartitems[i].product \in Keys(products)
    /\ \A y \in Keys(payments) : payments[y].order \in Keys(orders)
    /\ ret.op = "Product.delete" =>
           /\ ret.args[1] \notin Keys(products)
           /\ \A r \in Keys(reviews) : reviews[r].product # ret.args[1]
           /\ \A l \in Keys(likes) : likes[l].product # ret.args[1]
           /\ \A i \in Keys(orderitems) : orderitems[i].product # ret.args[1]
           /\ \A i \in Keys(cartitems) : cartitems[i].product # ret.args[1]
           /\ \A i \in Keys(images) : images[i].product # ret.args[1]
    /\ ret.op = "Customer.delete" =>
           /\ ret.args[1] \notin customers
           /\ \A r \in Keys(reviews) : reviews[r].user # ret.args[1]
           /\ \A l \in Keys(likes) : likes[l].user # ret.args[1]
           /\ \A o \in Keys(orders) : orders[o].customer # ret.args[1]
           /\ \A k \in Keys(carts) : carts[k].customer # ret.args[1]

\* a product has been deleted together with three rows that referred to it,
\* and its category and a customer are still stored
C8_Witness ==
    /\ ret.op = "Product.delete"
    /\ ret.value >= 4
    /\ Keys(categories) # {}
    /\ customers # {}

\* C9: a step that changes the price of a stored product keeps every stored
\* OrderItem and its price.
C9_PriceSnapshot ==
    [][(\E p \in Keys(products) \cap Keys(products') :
            products'[p].price # products[p].price)
       => \A i \in Keys(orderitems) :
              i \in Keys(orderitems') /\ orderitems'[i].price = orderitems[i].price]_vars

\* the price of a product has just been changed, and an order item of that
\* product holds another price
C9_Witness ==
    /\ ret.op = "Product.save"
    /\ ret.args[1] \in Keys(products)
    /\ products[ret.args[1]].price = ret.args[2]
    /\ \E i \in Keys(orderitems) :
           orderitems[i].product = ret.args[1] /\ orderitems[i].price # ret.args[2]

\* C10: every stored OrderItem and every stored CartItem has a quantity of at
\* least 1.
C10_QuantityAtLeastOne ==
    /\ \A i \in Keys(orderitems) : orderitems[i].quantity >= 1
    /\ \A i \in Keys(cartitems) : cartitems[i].quantity >= 1

\* what the columns do keep: no stored quantity is negative
C10_QuantityNotNegative ==
    /\ \A i \in Keys(orderitems) : orderitems[i].quantity >= 0
    /\ \A i \in Keys(cartitems) : cartitems[i].quantity >= 0

\* C11: the parent relation is a forest: from every stored category the
\* parent references lead to a category without parent in fewer steps than
\* there are stored categories (so no category is its own parent or
\* ancestor), and Category.__str__ returns a name path for every category.
C11_ParentForest ==
    /\ \A c \in Keys(categories) :
           \E path \in UNION {[0..n -> Keys(categories)] :
                                 n \in 0..(Cardinality(Keys(categories)) - 1)} :
               /\ path[0] = c
               /\ \A i \in (DOMAIN path) \ {0} : path[i] = categories[path[i - 1]].parent
               /\ \E last \in DOMAIN path :
                      /\ \A i \in DOMAIN path : i <= last
                      /\ categories[path[last]].parent = NULL
    /\ ret.op = "Category.__str__" => ret.value # <<"RecursionError">>

\* what the code does keep: a parent reference is null or names a stored
\* category
C11_ParentStored ==
    \A c \in Keys(categories) :
        categories[c].parent = NULL \/ categories[c].parent \in Keys(categories)

====
